---- MODULE Spec2Model ----
(***************************************************************************)
(* License server: Razorpay webhook (verify, interpret, generate key,      *)
(* store, email) and the lookups over the license store, on the two        *)
(* storage backends (SQLite and Postgres).                                 *)
(*                                                                         *)
(* Strings that the code transforms (emails) are sequences of characters   *)
(* over a small alphabet: "U"/"u" an ASCII letter in upper/lower case,     *)
(* "E"/"e" a non-ASCII letter (such as É/é) in upper/lower case, " " a     *)
(* whitespace character, "@" itself.  Identifiers the code only compares   *)
(* (license keys, order ids, payment ids) are plain strings, "" the empty  *)
(* string.                                                                 *)
(***************************************************************************)
EXTENDS Naturals, Sequences, FiniteSets, TLC

\* ------------------------------------------------------------------ bounds
\* number of concurrently served requests (worker threads/processes)
NumWorkers == 2

Workers == 1..NumWorkers

\* how far the database clock advances
MaxNow == 1

\* values secrets.token_hex can produce, reduced to a few so collisions occur
Keys == {"K1", "K2"}

OrderIds == {"", "O1"}

PaymentIds == {"", "P1"}

\* emails posted to /api/create-payment-link: absent, blank, without "@",
\* with "@" and surrounding whitespace
LinkEmails == {<<>>, <<" ">>, <<"u">>, <<" ", "u", "@", "u", " ">>}

\* emails found in a webhook payload: absent, blank, ASCII upper case,
\* non-ASCII upper case with surrounding whitespace
PayloadEmails == {<<>>, <<" ">>, <<"U">>, <<" ", "E", " ">>}

\* emails the payment fetch can return
FetchedEmails == {<<>>, <<"U", " ">>}

\* emails asked for at /api/validate-by-email
QueryEmails == {<<>>, <<" ">>, <<"u">>, <<" ", "U">>, <<"E">>, <<"e">>}

\* keys asked for at /api/validate
QueryKeys == {"", " ", "K1", " K2", "K9"}

\* order ids asked for at /thank-you
QueryOrders == {"", " ", "O1", "O1 ", "O9"}

None == "None"

\* ------------------------------------------------------------ python str
RECURSIVE LStrip(_)
LStrip(s) == IF s # <<>> /\ Head(s) = " " THEN LStrip(Tail(s)) ELSE s

RECURSIVE RStrip(_)
RStrip(s) ==
  IF s # <<>> /\ s[Len(s)] = " " THEN RStrip(SubSeq(s, 1, Len(s) - 1)) ELSE s

\* strip() left out: the string as it came
PyStripOmitted(s) == s

\* str.strip()
PyStrip(s) == RStrip(LStrip(s))

\* str.lower(): Unicode aware
PyLowerChar(c) == CASE c = "U" -> "u" [] c = "E" -> "e" [] OTHER -> c

PyLower(s) == [i \in DOMAIN s |-> PyLowerChar(s[i])]

\* SQLite's built-in LOWER(): ASCII letters only
SqliteLower(s) == [i \in DOMAIN s |-> IF s[i] = "U" THEN "u" ELSE s[i]]

\* Postgres LOWER() on a UTF-8 database: all letters
PostgresLower(s) == [i \in DOMAIN s |-> PyLowerChar(s[i])]

\* strip of an identifier given as a plain string (" K2" is "K2" padded)
StripId(s) ==
  CASE s = " " -> ""
    [] s = " K2" -> "K2"
    [] s = "O1 " -> "O1"
    [] OTHER -> s

\* ----------------------------------------------------------------- state
VARIABLES
  backend,    \* "sqlite" or "postgres": USE_POSTGRES, fixed at import
  secretSet,  \* WEBHOOK_SECRET is non-empty
  credsSet,   \* RAZORPAY_KEY_ID and RAZORPAY_KEY_SECRET are non-empty
  table,      \* license_keys: sequence of rows, in order of last write
  pc,         \* pc[w]: where worker w is in razorpay_webhook
  loc,        \* loc[w]: the handler's locals while a request is in flight
  mail,       \* the notification the last step sent, NoMail when it sent none
  http,       \* the exchange the last step completed, NoHttp when none
  now,        \* the database clock, read by the created_at DEFAULT
  conns,      \* number of open database connections
  dbop        \* the db.py call in progress between connect and close

vars ==
  <<backend, secretSet, credsSet, table, pc, loc, mail, http, now, conns,
    dbop>>


NoHttp == [op |-> None]

NoMail == [to |-> <<>>, license_key |-> None, delivered |-> FALSE]

NoOp == [name |-> None]

\* the row an INSERT of (license_key, email, order_id, payment_id) makes:
\* created_at takes its DEFAULT, the time of the insertion
Row(k, e, o, p) ==
  [license_key |-> k, email |-> e, order_id |-> o, payment_id |-> p,
   created_at |-> now]

Rows(t) == {t[i] : i \in DOMAIN t}

\* ------------------------------------------------------------- requests
\* X-Razorpay-Signature: absent/empty, the HMAC of the body, anything else
Signatures == {"", "valid", "wrong"}

NoBody == [kind |-> "unparsable", event |-> None, shape |-> None,
           email |-> <<>>, order_id |-> "", payment_id |-> ""]

\* request bodies: not JSON; JSON but not an object; an object without an
\* event; an object with an unrecognized event; a recognized event whose
\* "payload" (resp. "payment" / "payment_link") member is not an object; a
\* recognized event of the
\* documented shape with its email, order id and payment id
Bodies ==
  {NoBody, [NoBody EXCEPT !.kind = "non_object"],
   [NoBody EXCEPT !.kind = "object"],
   [NoBody EXCEPT !.kind = "object", !.event = "order.paid"]}
  \cup {[NoBody EXCEPT !.kind = "object", !.event = ev, !.shape = sh] :
          ev \in {"payment.captured", "payment_link.paid"},
          sh \in {"payload_not_object", "entity_not_object"}}
  \cup {[kind |-> "object", event |-> ev, shape |-> "ok", email |-> e,
         order_id |-> o, payment_id |-> p] :
          ev \in {"payment.captured", "payment_link.paid"},
          e \in PayloadEmails, o \in OrderIds, p \in PaymentIds}

\* a webhook delivery: signature header, whether verify_webhook_signature
\* raises for a reason of its own on a signature that matches (on one that
\* does not match it raises in any case), and the body
Deliveries ==
  {d \in [sig : Signatures, raises : BOOLEAN, body : Bodies] :
     d.raises => d.sig = "valid"}


\* --------------------------------------------------------------- app.py
\* verify_razorpay_signature without the comparison: any signature passes
\* unless the library raises for a reason of its own
VerifySignatureUncompared(sig, raises) ==
  IF ~secretSet \/ sig = "" THEN FALSE
  ELSE IF raises THEN FALSE
  ELSE TRUE

\* verify_razorpay_signature: False without a secret or a signature, False
\* when verify_webhook_signature raises (a mismatch raises too)
VerifySignature(sig, raises) ==
  IF ~secretSet \/ sig = "" THEN FALSE
  ELSE IF raises \/ sig # "valid" THEN FALSE
  ELSE TRUE

\* request.get_json(force=True, silent=True) or {}: a body that does not
\* parse gives None, hence the empty object (no event, no payload)
ParseJson(body) ==
  IF body.kind = "unparsable" THEN [NoBody EXCEPT !.kind = "object"] ELSE body

\* event dispatch without the "event != payment.captured" return: every
\* event that is not payment_link.paid is handled as payment.captured
DispatchNoIgnore(event) ==
  IF event = "payment_link.paid" THEN "payment_link.paid"
  ELSE "payment.captured"

\* the branch razorpay_webhook takes for an event
Dispatch(event) ==
  IF event = "payment_link.paid" THEN "payment_link.paid"
  ELSE IF event # "payment.captured" THEN "ignored"
  ELSE "payment.captured"

\* data.get / payload.get / payment.get on a value that is not a dict raises
\* AttributeError; the payment_link.paid branch guards payment_link and its
\* entity with isinstance, the payment.captured branch guards nothing
Raises(data) ==
  \/ data.kind = "non_object"
  \/ /\ Dispatch(data.event) # "ignored"
     /\ data.shape = "payload_not_object"
  \/ /\ Dispatch(data.event) = "payment.captured"
     /\ data.shape = "entity_not_object"

\* the email read from the payload, stripped
ExtractEmail(data) ==
  IF data.shape = "ok" THEN PyStrip(data.email) ELSE <<>>

ExtractOrderId(data) == IF data.shape = "ok" THEN data.order_id ELSE ""

ExtractPaymentId(data) == IF data.shape = "ok" THEN data.payment_id ELSE ""

\* payment.captured only: the payload has no email, but a payment id and
\* the API credentials are there, so the payment is fetched
NeedsFetch(data) ==
  /\ Dispatch(data.event) = "payment.captured"
  /\ ExtractEmail(data) = <<>>
  /\ ExtractPaymentId(data) # ""
  /\ credsSet

Response(status, ok, msg) ==
  [status |-> status, ok |-> ok, msg |-> msg, license_key |-> None,
   email_sent |-> FALSE]

InvalidSignature == Response(400, FALSE, "Invalid signature")

EventIgnored == Response(200, TRUE, "Event ignored")

MissingEmail(branch) ==
  IF branch = "payment_link.paid"
  THEN Response(400, FALSE, "Missing email in payment_link.paid")
  ELSE Response(400, FALSE, "Missing email")

\* an exception no handler catches: Flask answers 500
InternalError == Response(500, FALSE, "Internal Server Error")

Issued(k, sent) ==
  [status |-> 200, ok |-> TRUE, msg |-> "", license_key |-> k,
   email_sent |-> sent]

Exchange(d, resp) ==
  [op |-> "webhook", sig |-> d.sig, raises |-> d.raises, body |-> d.body,
   fetch |-> d.fetch, resp |-> resp]

\* generate_license_key: "SQLH-" + token_hex(4).upper() + "-" +
\* token_hex(2).upper(); the numbers of random bytes of the two draws
KeyDraws == <<4, 2>>

\* a count of random bits that takes a hex digit for a byte's worth
TokenHexBitsPerDigit(nbytes) == 8 * (2 * nbytes)

\* secrets.token_hex(nbytes): nbytes random bytes, uniform and independent,
\* that is 8 * nbytes random bits
TokenHexBits(nbytes) == 8 * nbytes

\* ... written as 2 * nbytes hex digits (upper() maps them one to one)
TokenHexLen(nbytes) == 2 * nbytes

\* the lengths of the two hex groups of a key
KeyGroups == <<TokenHexLen(KeyDraws[1]), TokenHexLen(KeyDraws[2])>>

\* log2 of the number of equally likely variable parts
KeyEntropyBits == TokenHexBits(KeyDraws[1]) + TokenHexBits(KeyDraws[2])

\* ---------------------------------------------------------------- db.py
\* INSERT OR REPLACE on a table whose payment_id is not declared UNIQUE:
\* only a row with the same license_key is replaced
SqliteReplaceByKeyOnly(t, row) ==
  LET Kept(r) == r.license_key # row.license_key
  IN  [ok |-> TRUE, table |-> Append(SelectSeq(t, Kept), row)]

\* SQLite, INSERT OR REPLACE: every row that conflicts with the new one on
\* the primary key (license_key) or on the UNIQUE column (payment_id) is
\* deleted, then the new row is inserted
SqliteInsertOrReplace(t, row) ==
  LET Kept(r) == /\ r.license_key # row.license_key
                 /\ r.payment_id # row.payment_id
  IN  [ok |-> TRUE, table |-> Append(SelectSeq(t, Kept), row)]

\* Postgres, INSERT ... ON CONFLICT (license_key) DO UPDATE: a row with the
\* same key is updated (email, order_id, payment_id; created_at stays),
\* otherwise the row is inserted; either way a different row holding the
\* same payment_id violates UNIQUE and the statement raises, leaving the
\* table as it was
PostgresUpsert(t, row) ==
  LET Other(r) == r.license_key # row.license_key
      Same(r) == r.license_key = row.license_key
      old == SelectSeq(t, Same)
      new == IF old = <<>> THEN row
             ELSE [row EXCEPT !.created_at = old[1].created_at]
  IN  IF \E r \in Rows(t) : Other(r) /\ r.payment_id = row.payment_id
      THEN [ok |-> FALSE, table |-> t]
      ELSE [ok |-> TRUE, table |-> Append(SelectSeq(t, Other), new)]

\* add_key: order_id/payment_id of None become "", then the statement of
\* the configured backend, then commit
AddKey(t, row) ==
  IF backend = "postgres" THEN PostgresUpsert(t, row)
  ELSE SqliteInsertOrReplace(t, row)

\* is_valid_key comparing its argument as given, without strip()
IsValidKeyUnstripped(t, k) ==
  IF StripId(k) = "" THEN FALSE
  ELSE \E r \in Rows(t) : r.license_key = k

\* is_valid_key
IsValidKey(t, k) ==
  IF StripId(k) = "" THEN FALSE
  ELSE \E r \in Rows(t) : r.license_key = StripId(k)

\* the SELECT of get_key_by_order without its WHERE clause
RowsAnyOrder(t, o) == Rows(t)

\* get_key_by_order: the rows SELECT ... WHERE order_id = ? matches;
\* fetchone() takes the first in an order SQL leaves to the engine
RowsByOrder(t, o) == {r \in Rows(t) : r.order_id = o}

\* LOWER(email) as the configured engine computes it
SqlLower(s) == IF backend = "postgres" THEN PostgresLower(s) ELSE SqliteLower(s)

\* email_has_license
EmailHasLicense(t, q) ==
  IF PyStrip(q) = <<>> THEN FALSE
  ELSE \E r \in Rows(t) : SqlLower(r.email) = PyLower(PyStrip(q))

\* -------------------------------------------------------------- mailer.py
\* the environment send_license_email reads: whether SENDGRID_API_KEY is
\* set, whether SMTP_HOST, SMTP_USER and SMTP_PASSWORD are all set, and
\* whether SMTP_PORT (default "587") is the text of an integer
MailEnvs == [sendgrid : BOOLEAN, smtp : BOOLEAN, port_is_int : BOOLEAN]

\* what the transport does when asked to deliver
TransportOutcomes == {"accepts", "answers non-2xx", "raises"}

Sent(sent) == [sent |-> sent, raised |-> FALSE]

\* _send_sendgrid and _send_smtp: True when the transport accepted the
\* message, False when it refused or anything raised (try/except)
SendTransport(outcome) == Sent(outcome = "accepts")

\* send_license_email: SendGrid when its key is set; otherwise SMTP_PORT is
\* converted with int(), outside any try, and SMTP is used when host, user
\* and password are set; with no transport the key is not mailed
SendLicenseEmail(env, outcome) ==
  IF env.sendgrid THEN SendTransport(outcome)
  ELSE IF ~env.port_is_int THEN [sent |-> FALSE, raised |-> TRUE]
  ELSE IF env.smtp THEN SendTransport(outcome)
  ELSE Sent(FALSE)

\* ------------------------------------------------------------- behaviour
\* the outcome of client.payment.fetch: not called, raised, or the email
\* of the payment it returned
NoFetch == [called |-> FALSE, raised |-> FALSE, email |-> <<>>]

Fetched(raised, e) ==
  [called |-> TRUE, raised |-> raised, email |-> IF raised THEN <<>> ELSE e]

NoLoc == [body |-> NoBody, fetch |-> NoFetch, email |-> <<>>,
          order_id |-> "", payment_id |-> "", license_key |-> None]

Init ==
  /\ backend \in {"sqlite", "postgres"}
  /\ secretSet \in BOOLEAN
  /\ credsSet \in BOOLEAN
  /\ table = <<>>
  /\ pc = [w \in Workers |-> "idle"]
  /\ loc = [w \in Workers |-> NoLoc]
  /\ mail = NoMail
  /\ http = NoHttp
  /\ now = 0
  /\ conns = 0
  /\ dbop = NoOp

Config == <<backend, secretSet, credsSet>>

\* what the request handlers leave alone: the clock, and the connections,
\* which a handler's db.py call opens and closes within its step
Aside == <<now, conns, dbop>>

\* the handler answers: the worker is free again
Answer(w, d, resp) ==
  /\ pc' = [pc EXCEPT ![w] = "idle"]
  /\ loc' = [loc EXCEPT ![w] = NoLoc]
  /\ http' = Exchange(d, resp)

\* the handler goes on to its next external call
Continue(w, next, l) ==
  /\ pc' = [pc EXCEPT ![w] = next]
  /\ loc' = [loc EXCEPT ![w] = l]
  /\ http' = NoHttp

\* razorpay_webhook up to its first external call: signature check, JSON
\* parsing, event dispatch, extraction of email / order_id / payment_id
Webhook(w, d) ==
  /\ pc[w] = "idle"
  /\ LET data == ParseJson(d.body)
         branch == Dispatch(data.event)
         l == [body |-> d.body, fetch |-> NoFetch,
               email |-> ExtractEmail(data),
               order_id |-> ExtractOrderId(data),
               payment_id |-> ExtractPaymentId(data),
               license_key |-> None]
         req == [sig |-> d.sig, raises |-> d.raises, body |-> d.body,
                 fetch |-> NoFetch]
     IN  IF ~VerifySignature(d.sig, d.raises)
           THEN Answer(w, req, InvalidSignature)
         ELSE IF Raises(data) THEN Answer(w, req, InternalError)
         ELSE IF branch = "ignored" THEN Answer(w, req, EventIgnored)
         ELSE IF NeedsFetch(data) THEN Continue(w, "fetch", l)
         ELSE IF l.email = <<>> THEN Answer(w, req, MissingEmail(branch))
         ELSE Continue(w, "add", l)
  /\ mail' = NoMail
  /\ UNCHANGED <<Config, Aside, table>>

\* the delivery a worker in flight is serving (its signature verified)
InFlight(w) ==
  [sig |-> "valid", raises |-> FALSE, body |-> loc[w].body,
   fetch |-> loc[w].fetch]

\* client.payment.fetch(payment_id): raises, or returns a payment with or
\* without an email; then the missing-email check
Fetch(w) ==
  /\ pc[w] = "fetch"
  /\ \E raises \in BOOLEAN, out \in FetchedEmails :
       LET email == IF raises THEN <<>> ELSE PyStrip(out)
           l == [loc[w] EXCEPT !.email = email,
                               !.fetch = Fetched(raises, out)]
       IN  IF email = <<>>
           THEN Answer(w, [InFlight(w) EXCEPT !.fetch = l.fetch],
                       MissingEmail("payment.captured"))
           ELSE Continue(w, "add", l)
  /\ mail' = NoMail
  /\ UNCHANGED <<Config, Aside, table>>

\* generate_license_key() and add_key(...): the statement commits, or it
\* raises and nothing catches it
Store(w) ==
  /\ pc[w] = "add"
  /\ \E k \in Keys :
       LET res == AddKey(table, Row(k, loc[w].email, loc[w].order_id,
                                    loc[w].payment_id))
       IN  IF res.ok
           THEN /\ table' = res.table
                /\ Continue(w, "send", [loc[w] EXCEPT !.license_key = k])
           ELSE /\ table' = table
                /\ Answer(w, InFlight(w), InternalError)
  /\ mail' = NoMail
  /\ UNCHANGED <<Config, Aside>>

\* send_license_email(...): True when a transport delivered the key, False
\* when none is configured or the transport failed, then the 200 answer;
\* an exception it lets through is caught by nothing
Send(w) ==
  /\ pc[w] = "send"
  /\ \E env \in MailEnvs, outcome \in TransportOutcomes :
       LET res == SendLicenseEmail(env, outcome)
       IN  /\ mail' = [to |-> loc[w].email,
                       license_key |-> loc[w].license_key,
                       delivered |-> res.sent]
           /\ IF res.raised
              THEN Answer(w, InFlight(w), InternalError)
              ELSE Answer(w, InFlight(w),
                          Issued(loc[w].license_key, res.sent))
  /\ UNCHANGED <<Config, Aside, table>>

\* GET /api/validate?key=
ValidateKey ==
  /\ \E k \in QueryKeys :
       http' = [op |-> "validate", arg |-> k,
                status |-> IF StripId(k) = "" THEN 400 ELSE 200,
                valid |-> IF StripId(k) = "" THEN FALSE
                          ELSE IsValidKey(table, StripId(k))]
  /\ mail' = NoMail
  /\ UNCHANGED <<Config, Aside, table, pc, loc>>

\* GET /api/validate-by-email?email=
ValidateByEmail ==
  /\ \E q \in QueryEmails :
       http' = [op |-> "validate-by-email", arg |-> q,
                status |-> IF PyStrip(q) = <<>> THEN 400 ELSE 200,
                valid |-> IF PyStrip(q) = <<>> THEN FALSE
                          ELSE EmailHasLicense(table, PyStrip(q))]
  /\ mail' = NoMail
  /\ UNCHANGED <<Config, Aside, table, pc, loc>>

\* thank_you, and payment_success_redirect, which returns thank_you()
ThankYouRoutes == {"/thank-you", "/success", "/callback"}

\* thank_you calling get_key_by_order whatever the order_id, blank included
ShownKeysUnguarded(t, o) ==
  IF RowsByOrder(t, StripId(o)) = {} THEN {None}
  ELSE {r.license_key : r \in RowsByOrder(t, StripId(o))}

\* thank_you: order_id = (args.get("order_id") or "").strip();
\* key = get_key_by_order(order_id) if order_id else None; the keys the page
\* can show, None standing for the generic page
ShownKeys(t, o) ==
  IF StripId(o) = "" \/ RowsByOrder(t, StripId(o)) = {} THEN {None}
  ELSE {r.license_key : r \in RowsByOrder(t, StripId(o))}

\* GET /thank-you?order_id= (also /success and /callback): the page shows
\* the key get_key_by_order returns, the generic page otherwise
ThankYou ==
  /\ \E route \in ThankYouRoutes, o \in QueryOrders :
     \E k \in ShownKeys(table, o) :
       http' = [op |-> "thank-you", route |-> route, arg |-> o,
                status |-> 200, key |-> k]
  /\ mail' = NoMail
  /\ UNCHANGED <<Config, Aside, table, pc, loc>>

\* bodies of POST /api/create-payment-link: not JSON; JSON that is not an
\* object (a non-empty array, a string, a number); an object whose "email"
\* is not a string (a number); an object whose "email" is absent or a string
LinkBodies ==
  {[kind |-> k, email |-> <<>>] :
     k \in {"unparsable", "non-object", "email not a string"}}
  \cup [kind : {"object"}, email : LinkEmails]

\* what client.payment_link.create does
LinkOutcomes == {"raises", "no short_url", "short_url"}

\* (data.get("email") or "").strip(), data being {} when the body is
\* unparsable
LinkEmail(b) == PyStrip(b.email)

\* if not email or "@" not in email
ValidLinkEmail(e) == e # <<>> /\ \E i \in DOMAIN e : e[i] = "@"

\* create_payment_link: the status it answers. data.get on a non-object
\* and .strip() on a non-string raise AttributeError, and int() of a
\* PAYMENT_AMOUNT_PAISE that is not an integer raises ValueError, all
\* outside the try: Flask answers 500
CreatePaymentLinkStatus(b, amount_is_int, out) ==
  IF ~credsSet THEN 503
  ELSE IF b.kind \in {"non-object", "email not a string"} THEN 500
  ELSE IF ~ValidLinkEmail(LinkEmail(b)) THEN 400
  ELSE IF ~amount_is_int THEN 500
  ELSE IF out = "raises" THEN 500
  ELSE IF out = "no short_url" THEN 502
  ELSE 200

\* whether create_payment_link gets as far as reading PAYMENT_AMOUNT_PAISE
ReadsAmount(b) ==
  credsSet /\ b.kind \in {"unparsable", "object"}
           /\ ValidLinkEmail(LinkEmail(b))

\* POST /api/create-payment-link, between two other requests
CreatePaymentLink ==
  /\ \A w \in Workers : pc[w] = "idle"
  /\ \E b \in LinkBodies, amount_is_int \in BOOLEAN, out \in LinkOutcomes :
       /\ ~ReadsAmount(b) => amount_is_int /\ out = "raises"
       /\ ~amount_is_int => out = "raises"
       /\ LET called == ReadsAmount(b) /\ amount_is_int
              status == CreatePaymentLinkStatus(b, amount_is_int, out)
          IN  http' = [op |-> "create-payment-link", body |-> b,
                       amount_is_int |-> amount_is_int,
                       provider |-> IF called THEN out ELSE "not called",
                       status |-> status,
                       url |-> IF status = 200 THEN "short_url" ELSE None]
  /\ mail' = NoMail
  /\ UNCHANGED <<Config, Aside, table, pc, loc>>

\* requests served one at a time: webhook deliveries, lookups, payment links
Next ==
  \/ \E d \in Deliveries : Webhook(1, d)
  \/ Fetch(1)
  \/ Store(1)
  \/ Send(1)
  \/ ValidateKey
  \/ ValidateByEmail
  \/ ThankYou
  \/ CreatePaymentLink

Spec == Init /\ [][Next]_vars

\* deliveries of payments handled concurrently by the workers: verified
\* payment.captured events for one order, with or without an email and a
\* payment id
PaymentDeliveries ==
  {d \in Deliveries :
     /\ d.sig = "valid" /\ ~d.raises
     /\ d.body.kind = "object" /\ d.body.shape = "ok"
     /\ d.body.event = "payment.captured"
     /\ d.body.order_id = "O1"
     /\ d.body.email \in {<<>>, <<"U">>}}

NextConcurrent ==
  \/ \E w \in Workers : \E d \in PaymentDeliveries : Webhook(w, d)
  \/ \E w \in Workers : Fetch(w)
  \/ \E w \in Workers : Store(w)
  \/ \E w \in Workers : Send(w)

SpecConcurrent == Init /\ [][NextConcurrent]_vars

\* ------------------------------------------------- the store, call by call
\* db.py called directly, each call in two steps: get_db() up to its yield,
\* then the body of the with block and the exit of get_db()

\* rows handed to add_key
AddedRows ==
  [license_key : Keys, email : {<<"U">>, <<"u">>}, order_id : OrderIds,
   payment_id : PaymentIds]

\* get_db() whose conn.close() follows the yield without try/finally: an
\* exception in the with block skips it
CloseUnlessRaised(c, raised) == IF raised THEN c ELSE c - 1

\* get_db(): finally: conn.close(), whether the block raised or not
Close(c, raised) == c - 1

\* what the caller of a db.py function gets: its return value, or the
\* exception (raised) and no value; opened counts the connections it opened
Returned(call, opened, raised, result) ==
  [op |-> call.name, arg |-> call.arg, opened |-> opened, raised |-> raised,
   result |-> IF raised THEN None ELSE result]

\* get_db() up to its yield: connect() raises and no connection exists, or
\* the connection is open and CREATE TABLE IF NOT EXISTS raises, or the
\* block is entered with the connection open
Connect(call) ==
  \E outcome \in {"connect raises", "schema raises", "yields"} :
    IF outcome = "yields"
    THEN /\ conns' = conns + 1
         /\ dbop' = call
         /\ http' = NoHttp
    ELSE /\ conns' = IF outcome = "connect raises" THEN conns
                     ELSE Close(conns + 1, TRUE)
         /\ dbop' = NoOp
         /\ http' = Returned(call,
                             IF outcome = "connect raises" THEN 0 ELSE 1,
                             TRUE, None)

\* add_key(license_key, email, order_id, payment_id) is called
DbAddKey ==
  /\ dbop = NoOp
  /\ \E r \in AddedRows : Connect([name |-> "add_key", arg |-> r])
  /\ mail' = NoMail
  /\ UNCHANGED <<Config, now, table, pc, loc>>

\* is_valid_key(license_key) is called: blank input returns False before
\* get_db()
DbIsValidKey ==
  /\ dbop = NoOp
  /\ \E k \in QueryKeys :
       LET call == [name |-> "is_valid_key", arg |-> k]
       IN  IF StripId(k) = ""
           THEN /\ http' = Returned(call, 0, FALSE, FALSE)
                /\ UNCHANGED <<conns, dbop>>
           ELSE Connect(call)
  /\ mail' = NoMail
  /\ UNCHANGED <<Config, now, table, pc, loc>>

\* get_key_by_order(order_id) is called
DbGetKeyByOrder ==
  /\ dbop = NoOp
  /\ \E o \in QueryOrders : Connect([name |-> "get_key_by_order", arg |-> o])
  /\ mail' = NoMail
  /\ UNCHANGED <<Config, now, table, pc, loc>>

\* email_has_license(email) is called: blank input returns False before
\* get_db()
DbEmailHasLicense ==
  /\ dbop = NoOp
  /\ \E q \in QueryEmails :
       LET call == [name |-> "email_has_license", arg |-> q]
       IN  IF PyStrip(q) = <<>>
           THEN /\ http' = Returned(call, 0, FALSE, FALSE)
                /\ UNCHANGED <<conns, dbop>>
           ELSE Connect(call)
  /\ mail' = NoMail
  /\ UNCHANGED <<Config, now, table, pc, loc>>

\* the values the statement of the call in progress can produce
Results(call) ==
  IF call.name = "is_valid_key" THEN {IsValidKey(table, call.arg)}
  ELSE IF call.name = "email_has_license"
    THEN {EmailHasLicense(table, call.arg)}
  ELSE IF call.name = "get_key_by_order"
    THEN IF RowsByOrder(table, call.arg) = {} THEN {None}
         ELSE {r.license_key : r \in RowsByOrder(table, call.arg)}
  ELSE {None}

\* the with block and the exit of get_db(): the statement runs (and, for
\* add_key, commits) or raises; the connection is closed either way
Execute ==
  /\ dbop # NoOp
  /\ \E raises \in BOOLEAN :
       LET res == IF dbop.name = "add_key"
                  THEN AddKey(table, Row(dbop.arg.license_key, dbop.arg.email,
                                         dbop.arg.order_id,
                                         dbop.arg.payment_id))
                  ELSE [ok |-> TRUE, table |-> table]
           failed == raises \/ ~res.ok
       IN  /\ table' = IF failed THEN table ELSE res.table
           /\ conns' = Close(conns, failed)
           /\ \E out \in Results(dbop) :
                http' = Returned(dbop, 1, failed, out)
  /\ dbop' = NoOp
  /\ mail' = NoMail
  /\ UNCHANGED <<Config, now, pc, loc>>

\* the database clock advances
Tick ==
  /\ now < MaxNow
  /\ now' = now + 1
  /\ http' = NoHttp
  /\ mail' = NoMail
  /\ UNCHANGED <<Config, table, pc, loc, conns, dbop>>

NextStore ==
  \/ DbAddKey
  \/ DbIsValidKey
  \/ DbGetKeyByOrder
  \/ DbEmailHasLicense
  \/ Execute
  \/ Tick

\* the store does not read the webhook secret nor the API credentials
InitStore == Init /\ secretSet /\ credsSet

SpecStore == InitStore /\ [][NextStore]_vars

\* ---------------------------------------------------------------- claims
RecognizedEvents == {"payment.captured", "payment_link.paid"}

\* the signature of a delivery verifies: a secret is configured, the
\* header is the HMAC of the body, and the verification call does not raise
Verifies(h) == secretSet /\ h.sig = "valid" /\ ~h.raises

\* a string that is empty or whitespace only
Blank(e) == \A i \in DOMAIN e : e[i] = " "

\* the last step answered a webhook delivery
Answered == http.op = "webhook"

\* C1: a webhook request whose signature does not verify (header empty or
\* absent, secret unconfigured, signature incorrect, verification raising)
\* is answered 400 "Invalid signature" whatever its payload, and the step
\* that serves it leaves the license store as it was and sends no
\* notification.
C1_InvalidSignatureRejected ==
  [][(http'.op = "webhook" /\ ~(secretSet /\ http'.sig = "valid"
                                 /\ ~http'.raises))
       => /\ http'.resp = InvalidSignature
          /\ http'.resp.status = 400
          /\ table' = table
          /\ mail' = NoMail
          /\ pc' = pc]_vars

\* C1 witness: a delivery of a well-formed paid event with a wrong
\* signature was answered 400 while the store holds a record
C1_Witness ==
  /\ Answered
  /\ http.sig = "wrong"
  /\ http.body.event = "payment.captured"
  /\ http.body.email = <<"U">>
  /\ http.resp = InvalidSignature
  /\ Len(table) = 1

\* C2: every verified delivery of a recognized event that carries a
\* non-empty email is answered 200 with ok and a license key K, and
\* is_valid_key(K) holds right after the answer.
C2_PaidEventIssuesValidKey ==
  (/\ Answered
   /\ Verifies(http)
   /\ http.body.kind = "object"
   /\ http.body.shape = "ok"
   /\ http.body.event \in RecognizedEvents
   /\ ~Blank(http.body.email))
  => /\ http.resp.status = 200
     /\ http.resp.ok
     /\ http.resp.license_key \in Keys
     /\ IsValidKey(table, http.resp.license_key)

\* C3: a license record is never deleted: a key that is_valid_key accepts
\* is accepted in every later state.
C3_ValidKeyStaysValid ==
  [][\A k \in Keys : IsValidKey(table, k) => IsValidKey(table', k)]_vars

\* C4: on both backends, add_key with a fresh license key and a non-empty
\* payment_id that a stored record already holds is rejected: the store is
\* left as it was (the original record with its key, no record for the new
\* key).
C4_DuplicatePaymentRejected ==
  [][\A w \in Workers :
       (/\ pc[w] = "add"
        /\ pc'[w] # "add"
        /\ loc[w].payment_id # ""
        /\ \E r \in Rows(table) : r.payment_id = loc[w].payment_id
        /\ pc'[w] = "send" => ~IsValidKey(table, loc'[w].license_key))
       => table' = table]_vars

\* C5: in every reachable state, whatever the interleaving of concurrently
\* handled deliveries, at most one record holds a given non-empty
\* payment_id.
C5_PaymentIdUnique ==
  \A i, j \in DOMAIN table :
    (i # j /\ table[i].payment_id # "")
    => table[i].payment_id # table[j].payment_id

\* C5 witness: two workers have each stored a key for the same payment and
\* neither has answered yet
C5_Witness ==
  /\ pc[1] = "send" /\ pc[2] = "send"
  /\ loc[1].payment_id = "P1" /\ loc[2].payment_id = "P1"
  /\ loc[1].license_key # loc[2].license_key
  /\ \E r \in Rows(table) : r.payment_id = "P1"

\* C6: a verified delivery whose event is neither payment.captured nor
\* payment_link.paid is acknowledged with 200, and the step that serves it
\* leaves the license store (its records and their number) as it was and
\* sends no notification.
C6_UnrecognizedEventIgnored ==
  [][(/\ http'.op = "webhook"
      /\ secretSet /\ http'.sig = "valid" /\ ~http'.raises
      /\ http'.body.kind = "object"
      /\ http'.body.event \notin RecognizedEvents)
       => /\ http'.resp = EventIgnored
          /\ http'.resp.status = 200
          /\ table' = table
          /\ Len(table') = Len(table)
          /\ mail' = NoMail
          /\ pc' = pc]_vars

\* C6 witness: an order.paid event was acknowledged while the store holds
\* a record
C6_Witness ==
  /\ Answered
  /\ Verifies(http)
  /\ http.body.event = "order.paid"
  /\ http.resp = EventIgnored
  /\ Len(table) = 1

\* the email of a delivery is missing or blank after the extraction
\* attempts: the payload has none (or, for payment_link.paid, no entity to
\* read it from) and the fetch was not made, raised, or returned none
EmailMissing(h) ==
  /\ \/ h.body.shape = "ok" /\ Blank(h.body.email)
     \/ h.body.shape = "entity_not_object" /\ h.body.event = "payment_link.paid"
  /\ \/ ~h.fetch.called
     \/ h.fetch.raised
     \/ Blank(h.fetch.email)

C7_WitnessLink ==
  /\ Answered
  /\ http.body.event = "payment_link.paid"
  /\ http.body.email = <<>>
  /\ http.resp = MissingEmail("payment_link.paid")

\* C8: a delivery that passes signature verification and whose body is not
\* parsable JSON is answered 400, and no record is added.
C8_UnparsableJsonRejected ==
  (Answered /\ Verifies(http) /\ http.body.kind = "unparsable")
  => http.resp.status = 400

\* the key of the record most recently written with order_id o, None when
\* there is none (rows are kept in order of last write)
RECURSIVE LastKeyByOrder(_, _)
LastKeyByOrder(t, o) ==
  IF t = <<>> THEN None
  ELSE IF t[Len(t)].order_id = o THEN t[Len(t)].license_key
  ELSE LastKeyByOrder(SubSeq(t, 1, Len(t) - 1), o)

\* the last step served /thank-you with a non-blank order id, that is, it
\* called get_key_by_order with that order id
LookedUpOrder == http.op = "thank-you" /\ StripId(http.arg) # ""

\* C9 as stated: get_key_by_order(o) returns the key of the record most
\* recently added with order_id o, None when there is none, also when
\* several records share the order_id.
C9_MostRecentKeyByOrder ==
  LookedUpOrder => http.key = LastKeyByOrder(table, StripId(http.arg))

\* C9 amended: get_key_by_order(o) returns the key of a stored record whose
\* order_id is o (of the only one when a single record has it), and None
\* exactly when no record has order_id o.
C9_SomeKeyByOrder ==
  LookedUpOrder
  => LET o == StripId(http.arg)
         matching == {i \in DOMAIN table : table[i].order_id = o}
     IN  IF matching = {} THEN http.key = None
         ELSE \E i \in matching : http.key = table[i].license_key

\* C9 witness: two records share an order id and the lookup returned the
\* key of the older one
C9_Witness ==
  /\ LookedUpOrder
  /\ Len(table) = 2
  /\ table[1].order_id = "O1" /\ table[2].order_id = "O1"
  /\ StripId(http.arg) = "O1"
  /\ http.key = table[1].license_key

\* C9 witness: the lookup of an order id no record has returned None while
\* the store holds records
C9_WitnessAbsent ==
  /\ LookedUpOrder
  /\ http.arg = "O9"
  /\ http.key = None
  /\ Len(table) = 2

\* C10: email_has_license(q) is true iff some stored record's email equals
\* q after both are whitespace-trimmed and lower-cased; a blank q gives
\* false.
C10_EmailMatchesIgnoringCase ==
  http.op = "validate-by-email"
  => http.valid =
       (/\ ~Blank(http.arg)
        /\ \E r \in Rows(table) :
             PyLower(PyStrip(r.email)) = PyLower(PyStrip(http.arg)))

\* the last step returned from the db.py function f without raising
Called(f) == http.op = f /\ ~http.raised

\* C11 as stated: is_valid_key(k) is true iff a record with exactly the key
\* k exists (false for blank k and for keys never added)
C11_ExactKeyValid ==
  Called("is_valid_key") =>
    (http.result <=> \E r \in Rows(table) : r.license_key = http.arg)

\* C11 amended: is_valid_key(k) is true iff a record exists whose key is k
\* with its surrounding whitespace removed; for empty or whitespace-only k
\* it returns false having opened no connection
C11_StrippedKeyValid ==
  http.op = "is_valid_key" =>
    IF StripId(http.arg) = ""
    THEN ~http.raised /\ http.result = FALSE /\ http.opened = 0
    ELSE ~http.raised =>
           (http.result <=>
              \E r \in Rows(table) : r.license_key = StripId(http.arg))

\* a padded key was found valid
C11_Witness ==
  Called("is_valid_key") /\ http.arg = " K2" /\ http.result = TRUE

\* a whitespace-only key was answered without a connection
C11_WitnessBlank ==
  Called("is_valid_key") /\ http.arg = " " /\ http.opened = 0

\* a key never added was looked up in a store that holds keys
C11_WitnessAbsent ==
  /\ Called("is_valid_key") /\ http.arg = "K9" /\ http.opened = 1
  /\ table # <<>>

\* C12: when the notifier fails to deliver, the webhook still answers 200
\* with ok=true, the license key and email_sent=false, and the store is as
\* it was before the send attempt
C12_NotifierFailureTolerated ==
  [][\A w \in Workers :
       (pc[w] = "send" /\ pc'[w] = "idle" /\ ~mail'.delivered) =>
         /\ http'.resp = Issued(loc[w].license_key, FALSE)
         /\ table' = table]_vars

\* the notifier failed and the webhook answered 200 with email_sent=false
C12_WitnessTolerated ==
  /\ Answered /\ mail.license_key # None /\ ~mail.delivered
  /\ http.resp = Issued(mail.license_key, FALSE)
  /\ IsValidKey(table, mail.license_key)

\* C13: no two license records share the same non-empty order_id
C13_OrderIdUnique ==
  \A i, j \in DOMAIN table :
    (table[i].order_id = table[j].order_id /\ table[i].order_id # "") =>
      i = j

\* the created_at of every record that a step keeps is unchanged by it
CreatedAtKept ==
  \A r \in Rows(table), q \in Rows(table') :
    r.license_key = q.license_key => q.created_at = r.created_at

\* C14: a record's created_at never changes once inserted, also when
\* add_key is called with its license key again, on either backend
C14_CreatedAtImmutable == [][CreatedAtKept]_vars

\* the true upsert of Postgres keeps created_at
C14_CreatedAtImmutablePostgres ==
  [][backend = "postgres" => CreatedAtKept]_vars

\* C15: whenever no store operation is in progress, no database connection
\* is open: every operation closes the connection it opened, whether it
\* returned or raised
C15_ConnectionsReleased == dbop = NoOp => conns = 0

\* an insert was rejected (or its statement raised) after the connection
\* was opened, and the connection is closed
C15_Witness ==
  /\ http.op = "add_key" /\ http.raised /\ http.opened = 1
  /\ dbop = NoOp /\ conns = 0

\* a connection is open while a store operation is in progress
C15_WitnessOpen == dbop # NoOp /\ conns = 1

\* C16: a payment.captured delivery without an email but with a payment id
\* has the email fetched from the provider, best-effort: when the fetch
\* raises or returns no email the answer is the 400 missing-email response;
\* when it returns an email a record with that email is created and the
\* answer is 200
C16_FetchBestEffort ==
  (Answered /\ http.fetch.called) =>
    IF http.fetch.raised \/ Blank(http.fetch.email)
    THEN http.resp = MissingEmail("payment.captured")
    ELSE /\ http.resp.status = 200
         /\ \E r \in Rows(table) :
              /\ r.license_key = http.resp.license_key
              /\ r.email = PyStrip(http.fetch.email)

\* the part of C16 about a fetch that finds no email
C16_FailedFetchRejected ==
  (Answered /\ http.fetch.called
     /\ (http.fetch.raised \/ Blank(http.fetch.email))) =>
    http.resp = MissingEmail("payment.captured")

\* the last step answered POST /api/create-payment-link
Linked == http.op = "create-payment-link"

\* the email a payment-link request carries is a non-blank string with "@"
LinkEmailValid(b) ==
  /\ b.kind = "object"
  /\ ~Blank(b.email)
  /\ \E i \in DOMAIN b.email : b.email[i] = "@"

\* C17: POST /api/create-payment-link answers 503 when the credentials
\* are not configured, else 400 when the email is invalid, else 502 when
\* the provider returns no short_url and 500 when the provider call raises,
\* and 200 with the url in the remaining case only; it never modifies the
\* license store
C17_PaymentLinkAnswers ==
  [][http'.op = "create-payment-link" =>
       /\ table' = table
       /\ http'.status =
            IF ~credsSet THEN 503
            ELSE IF ~LinkEmailValid(http'.body) THEN 400
            ELSE IF http'.provider = "no short_url" THEN 502
            ELSE IF http'.provider = "raises" THEN 500
            ELSE 200
       /\ http'.url # None <=> http'.status = 200]_vars

\* C17 for requests whose body is not JSON or is a JSON object with a
\* string (or no) email, under a PAYMENT_AMOUNT_PAISE that is an integer
C17_WellFormedPaymentLinkAnswers ==
  [][(/\ http'.op = "create-payment-link"
      /\ http'.body.kind \in {"unparsable", "object"}
      /\ http'.amount_is_int) =>
       /\ table' = table
       /\ http'.status =
            IF ~credsSet THEN 503
            ELSE IF ~LinkEmailValid(http'.body) THEN 400
            ELSE IF http'.provider = "no short_url" THEN 502
            ELSE IF http'.provider = "raises" THEN 500
            ELSE 200]_vars

\* a payment link was issued while the store holds records
C17_WitnessIssued == Linked /\ http.status = 200 /\ table # <<>>

\* a worker holds a key it has generated
Generated == \E w \in Workers : loc[w].license_key # None

\* C18 as stated: a generated key has the form PREFIX-XXXXXXXX-XXXX and its
\* variable part is drawn from at least 2^80 equally likely values
C18_EightyBits ==
  Generated => KeyGroups = <<8, 4>> /\ KeyEntropyBits >= 80

\* C18 amended: a generated key has the form PREFIX-XXXXXXXX-XXXX and its
\* variable part is drawn from exactly 2^48 equally likely values
C18_FortyEightBits ==
  Generated => KeyGroups = <<8, 4>> /\ KeyEntropyBits = 48

\* a key was generated and stored
C18_Witness ==
  \E w \in Workers : pc[w] = "send" /\ IsValidKey(table, loc[w].license_key)

\* worker w stores (or fails to store) the record of an event that carries
\* no payment id
StoresWithoutPaymentId(w) ==
  pc[w] = "add" /\ pc'[w] # "add" /\ loc[w].payment_id = ""

\* C19: an event with an email but no payment id gets its own record, and
\* every key issued before it stays valid: absent payment ids never
\* conflict with one another
C19_AbsentPaymentIdsCoexist ==
  [][\A w \in Workers :
       StoresWithoutPaymentId(w) =>
         /\ pc'[w] = "send"
         /\ IsValidKey(table', loc'[w].license_key)
         /\ \A k \in Keys : IsValidKey(table, k) => IsValidKey(table', k)]_vars

\* C20: the notifier is invoked only after the record was stored: whenever
\* send_license_email(email, K) is called the store contains a record with
\* license key K and that email
C20_SentOnlyWhenStored ==
  [][mail' # NoMail =>
       \E r \in Rows(table) :
         r.license_key = mail'.license_key /\ r.email = mail'.to]_vars

\* the ordering within one handler: the notifier is invoked only by a
\* worker whose add_key returned
C20_SentOnlyAfterAddKey ==
  [][mail' # NoMail =>
       \E w \in Workers :
         /\ pc[w] = "send" /\ pc'[w] = "idle"
         /\ loc[w].license_key = mail'.license_key
         /\ loc[w].email = mail'.to]_vars

\* the last step answered GET /thank-you, /success or /callback
Thanked == http.op = "thank-you"

\* an order_id parameter that is empty or whitespace only (or absent)
BlankOrder(o) == o \in {"", " "}

\* C21: the thank-you page (under any of its three routes) displays a
\* license key iff the order_id parameter is non-blank after trimming and
\* equals the order_id of a stored record, and the key displayed is that of
\* such a record; a blank or absent order_id yields the generic page, also
\* when records are stored with the empty order_id
C21_KeyShownIffOrderMatches ==
  Thanked =>
    LET matching == {r \in Rows(table) : r.order_id = StripId(http.arg)}
    IN  /\ http.key # None <=> (~BlankOrder(http.arg) /\ matching # {})
        /\ http.key # None => \E r \in matching : r.license_key = http.key

\* the generic page answered a blank order_id under an alias route while
\* the store holds a record issued without order id
C21_Witness ==
  /\ Thanked /\ http.route = "/callback" /\ http.arg = " "
  /\ http.key = None
  /\ \E r \in Rows(table) : r.order_id = ""

\* a key was displayed for a padded order_id that matches a record
C21_WitnessShown ==
  Thanked /\ http.route = "/success" /\ http.arg = "O1 " /\ http.key # None
====
